---- MODULE Spec2Model ----
(***************************************************************************)
(* Model of tools/text_to_speech.py: the command line script that turns a  *)
(* text into an mp3 file with one of three engines (MacOS `say` + ffmpeg,  *)
(* Amazon Polly through the aws CLI, Google text-to-speech through curl).  *)
(*                                                                         *)
(* One invocation of the script is a process p.  Its position in the       *)
(* script is pc[p]; the file system and the log of the operations the      *)
(* processes performed on the outside world are shared.                    *)
(***************************************************************************)
EXTENDS Integers, Sequences, FiniteSets, TLC

VARIABLES
    argv,               \* argv[p]: the command line of invocation p
    args,               \* args[p]: the Namespace parse_args returned
    pc,                 \* pc[p]: position of invocation p in the script
    exitStatus,         \* exitStatus[p]: exit status of the process (read when pc[p] = "done")
    exc,                \* exc[p]: the uncaught exception that ended p, or "none"
    response,           \* response[p]: what curl printed (postJson's `response`)
    responseJson,       \* responseJson[p]: json.loads(response)
    mp3Data,            \* mp3Data[p]: base64.b64decode(responseJson['audioContent'])
    fs,                 \* the working directory: existing path |-> content
    startFs,            \* the working directory as it was when the invocations started
    log,                \* the operations performed on the outside world, in order
    sayVoiceByLang,     \* module global, lines 16-20
    googleVoiceByLang,  \* module global, lines 21-25
    amazonVoiceByLang   \* module global, lines 26-31

vars == <<argv, args, pc, exitStatus, exc, response, responseJson, mp3Data,
          fs, startFs, log, sayVoiceByLang, googleVoiceByLang, amazonVoiceByLang>>

tables == <<sayVoiceByLang, googleVoiceByLang, amazonVoiceByLang>>
locals == <<response, responseJson, mp3Data>>

-----------------------------------------------------------------------------
(* Bounds of the model *)

\* longest audio payload (in bytes) the HTTP response carries
MaxPayloadLen == 3

-----------------------------------------------------------------------------
(* The voice tables as the source has them *)

SrcSayVoiceByLang ==
    [l \in {"de", "en", "fr"} |->
        CASE l = "de" -> "Anna" [] l = "en" -> "Samantha" [] OTHER -> "Thomas"]

SrcGoogleVoiceByLang ==
    [l \in {"de", "en", "fr"} |->
        CASE l = "de" -> [languageCode |-> "de-DE", name |-> "de-DE-Wavenet-C"]
          [] l = "en" -> [languageCode |-> "en-US", name |-> "en-US-Wavenet-D"]
          [] OTHER    -> [languageCode |-> "fr-FR", name |-> "fr-FR-Neural2-A"]]

SrcAmazonVoiceByLang ==
    [l \in {"de", "en", "fr"} |->
        CASE l = "de" -> "Vicki" [] l = "en" -> "Joanna" [] OTHER -> "Lea"]   \* Léa

\* a table cut down to the languages in D
Restrict(t, D) == [l \in (DOMAIN t) \cap D |-> t[l]]

-----------------------------------------------------------------------------
(* Values *)

\* Python's None, for the string valued option --use-google-key
None == "<None>"

\* bool(s) of an optional string
Truthy(s) == s # None /\ s # ""

\* an intermediate file of its own for each invocation
TempFile_PerInvocation(p) == IF p = 1 THEN "temp.aiff" ELSE "temp2.aiff"

\* the hardcoded intermediate file of the `say` engine (lines 101-103)
TempFile(p) == "temp.aiff"

\* the external commands the script starts
Commands == {"say", "ffmpeg", "aws", "curl"}

\* what --lang may be given on the command line; "absent": the option is not given
LangArgs == {"absent", "de", "en", "fr", "es"}

\* --use-google-key: not given, given empty, given with a key
KeyArgs == {None, "", "KEY"}

\* -t and -o of invocation p
TextOf(p) == IF p = 1 THEN "text one" ELSE "text two"
OutputOf(p) == IF p = 1 THEN "one.mp3" ELSE "two.mp3"

ArgvSet(p) ==
    [lang : LangArgs, use_say : BOOLEAN, use_amazon : BOOLEAN,
     use_google_key : KeyArgs, text : {TextOf(p)}, output : {OutputOf(p)}]

NoArgs == [lang |-> "", use_say |-> FALSE, use_amazon |-> FALSE,
           use_google_key |-> None, text |-> "", output |-> ""]

\* file contents
Old == [kind |-> "old"]
Stale == [kind |-> "aiff", text |-> "stale", voice |-> "stale", whole |-> TRUE]
Audio(kind, text, voice, whole) ==
    [kind |-> kind, text |-> text, voice |-> voice, whole |-> whole]
Bytes(data) == [kind |-> "bytes", data |-> data]

\* the file system
Exists(path) == path \in DOMAIN fs
Put(f, path, content) ==
    [x \in (DOMAIN f) \cup {path} |-> IF x = path THEN content ELSE f[x]]
Del(f, path) == [x \in (DOMAIN f) \ {path} |-> f[x]]

\* an entry of the log
Ev(p, op, arg, result) == [pid |-> p, op |-> op, arg |-> arg, result |-> result]

-----------------------------------------------------------------------------
(* base64, as base64.b64decode(s) decodes it (validate=False): characters   *)
(* outside the alphabet are skipped, a complete pad sequence ends the       *)
(* input, a dangling quantum is an error.  A character of the alphabet is   *)
(* its 6-bit value; Pad is '=', NonAlpha any character outside the          *)
(* alphabet (a line break).                                                 *)

Pad == 64
NonAlpha == 65

\* the byte values the payloads are built from
ByteVals == {0, 165, 255}

RECURSIVE B64Encode(_)
\* the text whose decoding is bs: three bytes per four characters, padded with '='
B64Encode(bs) ==
    IF Len(bs) = 0 THEN <<>>
    ELSE IF Len(bs) = 1 THEN
        <<bs[1] \div 4, (bs[1] % 4) * 16, Pad, Pad>>
    ELSE IF Len(bs) = 2 THEN
        <<bs[1] \div 4, (bs[1] % 4) * 16 + bs[2] \div 16, (bs[2] % 16) * 4, Pad>>
    ELSE
        <<bs[1] \div 4, (bs[1] % 4) * 16 + bs[2] \div 16,
          (bs[2] % 16) * 4 + bs[3] \div 64, bs[3] % 64>>
        \o B64Encode(SubSeq(bs, 4, Len(bs)))

RECURSIVE B64Scan(_, _, _, _, _, _)
\* the decoder's loop at character i: quad is the position in the quantum,
\* left the bits carried over, pads the pad characters seen in a row
B64Scan(cs, i, quad, left, pads, out) ==
    IF i > Len(cs) THEN
        [ok |-> quad = 0, data |-> out]
    ELSE IF cs[i] = Pad THEN
        IF quad >= 2 /\ quad + pads + 1 >= 4
        THEN [ok |-> TRUE, data |-> out]
        ELSE B64Scan(cs, i + 1, quad, left, pads + 1, out)
    ELSE IF cs[i] >= 64 THEN
        B64Scan(cs, i + 1, quad, left, pads, out)
    ELSE IF quad = 0 THEN
        B64Scan(cs, i + 1, 1, cs[i], 0, out)
    ELSE IF quad = 1 THEN
        B64Scan(cs, i + 1, 2, cs[i] % 16, 0, Append(out, left * 4 + cs[i] \div 16))
    ELSE IF quad = 2 THEN
        B64Scan(cs, i + 1, 3, cs[i] % 4, 0, Append(out, left * 16 + cs[i] \div 4))
    ELSE
        B64Scan(cs, i + 1, 0, 0, 0, Append(out, left * 64 + cs[i]))

\* a decoder that drops the bits carried from the second character of a quantum
B64Decode_DropCarry(cs) ==
    LET r == B64Scan(cs, 1, 0, 0, 0, <<>>)
    IN  [ok |-> r.ok,
         data |-> [k \in 1..Len(r.data) |->
                     IF k % 3 = 2 THEN r.data[k] % 16 ELSE r.data[k]]]

\* base64.b64decode(cs): [ok |-> FALSE] stands for binascii.Error
B64Decode(cs) == B64Scan(cs, 1, 0, 0, 0, <<>>)

\* the byte strings of at most n bytes
BytesUpTo(n) == UNION {[1..k -> ByteVals] : k \in 0..n}
Payloads == BytesUpTo(MaxPayloadLen)

\* texts that are not the base64 encoding of anything the decoder accepts as is:
\* one lone character, a quantum cut short, and an encoding broken by a line break
OddTexts ==
    {<<16>>, <<16, 16>>, <<16, 16, Pad>>, <<63, 48, NonAlpha, Pad, Pad>>}

\* what curl may print when it exits with status 0
Responses ==
    {[kind |-> "garbage", audioContent |-> <<>>],
     [kind |-> "error object", audioContent |-> <<>>]}
    \cup {[kind |-> "audio object", audioContent |-> t] :
            t \in {B64Encode(b) : b \in Payloads} \cup OddTexts}

NoResponse == [kind |-> "none", audioContent |-> <<>>]
NoData == [ok |-> FALSE, data |-> <<>>]

-----------------------------------------------------------------------------
(* Initial states *)

InitProcs(P) ==
    /\ argv \in [P -> UNION {ArgvSet(p) : p \in P}]
    /\ \A p \in P : argv[p] \in ArgvSet(p)
    /\ args = [p \in P |-> NoArgs]
    /\ pc = [p \in P |-> "parse_args"]
    /\ exitStatus = [p \in P |-> 0]
    /\ exc = [p \in P |-> "none"]
    /\ response = [p \in P |-> NoResponse]
    /\ responseJson = [p \in P |-> NoResponse]
    /\ mp3Data = [p \in P |-> NoData]
    /\ log = <<>>

\* the working directory before the run: the output and a left-over temp.aiff
\* may or may not be there
InitFs(P) ==
    /\ \E present \in SUBSET ({OutputOf(p) : p \in P} \cup {TempFile(p) : p \in P}) :
          fs = [x \in present |-> IF x \in {TempFile(p) : p \in P} THEN Stale ELSE Old]
    /\ startFs = fs

InitSrcTables ==
    /\ sayVoiceByLang = SrcSayVoiceByLang
    /\ googleVoiceByLang = SrcGoogleVoiceByLang
    /\ amazonVoiceByLang = SrcAmazonVoiceByLang

\* one invocation of the script as it is
Init == InitProcs({1}) /\ InitFs({1}) /\ InitSrcTables

-----------------------------------------------------------------------------
(* The script, step by step *)

\* sys.exit(status), or an uncaught exception e (the interpreter exits with 1)
Exit(p, status, e) ==
    /\ pc' = [pc EXCEPT ![p] = "done"]
    /\ exitStatus' = [exitStatus EXCEPT ![p] = status]
    /\ exc' = [exc EXCEPT ![p] = e]

Goto(p, where) ==
    /\ pc' = [pc EXCEPT ![p] = where]
    /\ UNCHANGED <<exitStatus, exc>>

Logged(e) == log' = Append(log, e)

\* addArgumentsToArgparser: the choices of --lang (line 45)
supported_languages ==
    DOMAIN sayVoiceByLang \cup DOMAIN googleVoiceByLang \cup DOMAIN amazonVoiceByLang

\* args = argparser.parse_args() (line 127): --lang defaults to 'de' and, when
\* given, must be one of the choices, or PatchedArgumentParser.error exits with 2
ParseArgs(p) ==
    /\ pc[p] = "parse_args"
    /\ IF argv[p].lang = "absent"
       THEN /\ args' = [args EXCEPT ![p] = [argv[p] EXCEPT !.lang = "de"]]
            /\ Goto(p, "checkArgs")
       ELSE IF argv[p].lang \in supported_languages
       THEN /\ args' = [args EXCEPT ![p] = argv[p]]
            /\ Goto(p, "checkArgs")
       ELSE /\ Exit(p, 2, "none")
            /\ UNCHANGED args
    /\ UNCHANGED <<argv, locals, fs, startFs, log, tables>>

\* checkArgs without its first test: no engine chosen is let through
CheckArgsExits_NoEngineTest(a) ==
    \/ a.use_say /\ a.lang \notin DOMAIN sayVoiceByLang
    \/ Truthy(a.use_google_key) /\ a.lang \notin DOMAIN googleVoiceByLang
    \/ a.use_amazon /\ a.lang \notin DOMAIN amazonVoiceByLang

\* checkArgs (lines 53-66): whether it calls sys.exit(2)
CheckArgsExits(a) ==
    \/ ~a.use_say /\ ~a.use_amazon /\ a.use_google_key = None
    \/ a.use_say /\ a.lang \notin DOMAIN sayVoiceByLang
    \/ Truthy(a.use_google_key) /\ a.lang \notin DOMAIN googleVoiceByLang
    \/ a.use_amazon /\ a.lang \notin DOMAIN amazonVoiceByLang

\* checkArgs(argparser, args) (line 130)
CheckArgs(p) ==
    /\ pc[p] = "checkArgs"
    /\ IF CheckArgsExits(args[p]) THEN Exit(p, 2, "none") ELSE Goto(p, "exists")
    /\ UNCHANGED <<argv, args, locals, fs, startFs, log, tables>>

\* the existence test that lets the run go on over an existing output
OutputExists_GoOn(p) ==
    /\ pc[p] = "exists"
    /\ Logged(Ev(p, "exists", args[p].output, IF Exists(args[p].output) THEN "True" ELSE "False"))
    /\ Goto(p, "textToSpeech")
    /\ UNCHANGED <<argv, args, locals, fs, startFs, tables>>

\* if os.path.exists(args.output): ... sys.exit(1) (lines 132-134)
OutputExists(p) ==
    /\ pc[p] = "exists"
    /\ Logged(Ev(p, "exists", args[p].output, IF Exists(args[p].output) THEN "True" ELSE "False"))
    /\ IF Exists(args[p].output) THEN Exit(p, 1, "none") ELSE Goto(p, "textToSpeech")
    /\ UNCHANGED <<argv, args, locals, fs, startFs, tables>>

\* a dispatch that tries the Google key before --use-amazon
Backend_GoogleFirst(a) ==
    IF Truthy(a.use_google_key) THEN "google"
    ELSE IF a.use_amazon THEN "amazon"
    ELSE "say"

\* the branch textToSpeech takes: if useAmazon / elif useGoogleKey / else
\* (lines 74, 80, 100)
Backend(a) ==
    IF a.use_amazon THEN "amazon"
    ELSE IF Truthy(a.use_google_key) THEN "google"
    ELSE "say"

\* an uncaught exception ends the process with status 1 and nothing else done
Raise(p, e) ==
    /\ Exit(p, 1, e)
    /\ UNCHANGED <<locals, fs, log>>

\* subprocess.check_output(['aws', 'polly', 'synthesize-speech', ..., targetFile])
\* (lines 75-79): the voice is looked up first; aws writes targetFile itself;
\* a non-zero exit status raises CalledProcessError, a missing aws
\* FileNotFoundError
Aws(p) ==
    /\ pc[p] = "textToSpeech"
    /\ Backend(args[p]) = "amazon"
    /\ IF args[p].lang \notin DOMAIN amazonVoiceByLang
       THEN Raise(p, "KeyError")
       ELSE LET voice == amazonVoiceByLang[args[p].lang]
                target == args[p].output
            IN \E result \in {"ok", "nonzero", "partial", "nostart"} :
                 /\ Logged(Ev(p, "aws", voice, result))
                 /\ fs' = CASE result = "ok" ->
                                 Put(fs, target, Audio("mp3", args[p].text, voice, TRUE))
                            [] result = "partial" ->
                                 Put(fs, target, Audio("mp3", args[p].text, voice, FALSE))
                            [] OTHER -> fs
                 /\ CASE result = "ok" -> Exit(p, 0, "none")
                      [] result = "nostart" -> Exit(p, 1, "FileNotFoundError")
                      [] OTHER -> Exit(p, 1, "CalledProcessError")
                 /\ UNCHANGED locals
    /\ UNCHANGED <<argv, args, startFs, tables>>

\* postJson (lines 81-94, 106-112): the voice is looked up while the body is
\* built; check_output(['curl', ...]) raises on a non-zero exit status or a
\* missing curl, and returns what curl printed otherwise
PostJson(p) ==
    /\ pc[p] = "textToSpeech"
    /\ Backend(args[p]) = "google"
    /\ IF args[p].lang \notin DOMAIN googleVoiceByLang
       THEN Raise(p, "KeyError") /\ UNCHANGED locals
       ELSE LET voice == googleVoiceByLang[args[p].lang]
            IN \E result \in {"ok", "nonzero", "nostart"} :
                 /\ Logged(Ev(p, "curl", voice, result))
                 /\ IF result = "ok"
                    THEN /\ \E r \in Responses : response' = [response EXCEPT ![p] = r]
                         /\ Goto(p, "json_loads")
                    ELSE /\ Exit(p, 1, IF result = "nostart" THEN "FileNotFoundError"
                                       ELSE "CalledProcessError")
                         /\ UNCHANGED response
                 /\ UNCHANGED <<responseJson, mp3Data, fs>>
    /\ UNCHANGED <<argv, args, startFs, tables>>

\* return json.loads(response) (line 113)
JsonLoads(p) ==
    /\ pc[p] = "json_loads"
    /\ IF response[p].kind = "garbage"
       THEN /\ Exit(p, 1, "JSONDecodeError")
            /\ UNCHANGED responseJson
       ELSE /\ responseJson' = [responseJson EXCEPT ![p] = response[p]]
            /\ Goto(p, "b64decode")
    /\ UNCHANGED <<argv, args, response, mp3Data, fs, startFs, log, tables>>

\* a decoding step that has opened targetFile before it decodes
Decode_OpenFirst(p) ==
    /\ pc[p] = "b64decode"
    /\ Logged(Ev(p, "open", args[p].output, "ok"))
    /\ fs' = Put(fs, args[p].output, Bytes(<<>>))
    /\ IF responseJson[p].kind # "audio object"
       THEN Exit(p, 1, "KeyError") /\ UNCHANGED mp3Data
       ELSE LET d == B64Decode(responseJson[p].audioContent)
            IN IF d.ok
               THEN mp3Data' = [mp3Data EXCEPT ![p] = d] /\ Goto(p, "write")
               ELSE Exit(p, 1, "binascii.Error") /\ UNCHANGED mp3Data
    /\ UNCHANGED <<argv, args, response, responseJson, startFs, tables>>

\* mp3Data = base64.b64decode(responseJson['audioContent']) (line 96)
Decode(p) ==
    /\ pc[p] = "b64decode"
    /\ IF responseJson[p].kind # "audio object"
       THEN Exit(p, 1, "KeyError") /\ UNCHANGED mp3Data
       ELSE LET d == B64Decode(responseJson[p].audioContent)
            IN IF d.ok
               THEN mp3Data' = [mp3Data EXCEPT ![p] = d] /\ Goto(p, "write")
               ELSE Exit(p, 1, "binascii.Error") /\ UNCHANGED mp3Data
    /\ UNCHANGED <<argv, args, response, responseJson, fs, startFs, log, tables>>

\* with open(targetFile, 'wb') as f: f.write(mp3Data) (lines 98-99); open may
\* fail (a directory that cannot be written), and then nothing is created
Write(p) ==
    /\ pc[p] = "write"
    /\ \E result \in {"ok", "OSError"} :
         /\ Logged(Ev(p, "open", args[p].output, result))
         /\ IF result = "ok"
            THEN /\ fs' = Put(fs, args[p].output, Bytes(mp3Data[p].data))
                 /\ Exit(p, 0, "none")
            ELSE /\ Exit(p, 1, "OSError")
                 /\ UNCHANGED fs
    /\ UNCHANGED <<argv, args, locals, startFs, tables>>

\* subprocess.call(['say', '-v', voice, '-o', 'temp.aiff', text]) (line 101):
\* the exit status is not looked at; only a missing `say` raises
Say(p) ==
    /\ pc[p] = "textToSpeech"
    /\ Backend(args[p]) = "say"
    /\ IF args[p].lang \notin DOMAIN sayVoiceByLang
       THEN Raise(p, "KeyError")
       ELSE LET voice == sayVoiceByLang[args[p].lang]
            IN \E result \in {"ok", "nonzero", "partial", "nostart"} :
                 /\ Logged(Ev(p, "say", voice, result))
                 /\ fs' = CASE result = "ok" ->
                                 Put(fs, TempFile(p), Audio("aiff", args[p].text, voice, TRUE))
                            [] result = "partial" ->
                                 Put(fs, TempFile(p), Audio("aiff", args[p].text, voice, FALSE))
                            [] OTHER -> fs
                 /\ IF result = "nostart"
                    THEN Exit(p, 1, "FileNotFoundError")
                    ELSE Goto(p, "ffmpeg")
                 /\ UNCHANGED locals
    /\ UNCHANGED <<argv, args, startFs, tables>>

\* subprocess.call(['ffmpeg', '-y', '-i', 'temp.aiff', ..., targetFile])
\* (line 102): the exit status is not looked at; only a missing ffmpeg raises.
\* Without its input ffmpeg can only fail
Ffmpeg(p) ==
    /\ pc[p] = "ffmpeg"
    /\ LET target == args[p].output
       IN \E result \in {"ok", "nonzero", "partial", "nostart"} :
            /\ result \in {"ok", "partial"} => Exists(TempFile(p))
            /\ Logged(Ev(p, "ffmpeg", target, result))
            /\ fs' = IF result \in {"ok", "partial"}
                     THEN LET src == fs[TempFile(p)]
                          IN Put(fs, target,
                                 Audio("mp3", src.text, src.voice, src.whole /\ result = "ok"))
                     ELSE fs
            /\ IF result = "nostart"
               THEN Exit(p, 1, "FileNotFoundError")
               ELSE Goto(p, "remove")
    /\ UNCHANGED <<argv, args, locals, startFs, tables>>

\* os.remove('temp.aiff') (line 103), the last statement of the script
Remove(p) ==
    /\ pc[p] = "remove"
    /\ IF Exists(TempFile(p))
       THEN /\ Logged(Ev(p, "remove", TempFile(p), "ok"))
            /\ fs' = Del(fs, TempFile(p))
            /\ Exit(p, 0, "none")
       ELSE /\ Logged(Ev(p, "remove", TempFile(p), "FileNotFoundError"))
            /\ UNCHANGED fs
            /\ Exit(p, 1, "FileNotFoundError")
    /\ UNCHANGED <<argv, args, locals, startFs, tables>>

Next ==
    \/ \E p \in DOMAIN pc : ParseArgs(p)
    \/ \E p \in DOMAIN pc : CheckArgs(p)
    \/ \E p \in DOMAIN pc : OutputExists(p)
    \/ \E p \in DOMAIN pc : Aws(p)
    \/ \E p \in DOMAIN pc : PostJson(p)
    \/ \E p \in DOMAIN pc : JsonLoads(p)
    \/ \E p \in DOMAIN pc : Decode(p)
    \/ \E p \in DOMAIN pc : Write(p)
    \/ \E p \in DOMAIN pc : Say(p)
    \/ \E p \in DOMAIN pc : Ffmpeg(p)
    \/ \E p \in DOMAIN pc : Remove(p)

Spec == Init /\ [][Next]_vars

-----------------------------------------------------------------------------
(* The same script over any contents of the three voice tables *)

InitAnyTables ==
    \E S, G, A \in SUBSET {"de", "en", "fr"} :
        /\ sayVoiceByLang = Restrict(SrcSayVoiceByLang, S)
        /\ googleVoiceByLang = Restrict(SrcGoogleVoiceByLang, G)
        /\ amazonVoiceByLang = Restrict(SrcAmazonVoiceByLang, A)

InitTables == InitProcs({1}) /\ InitFs({1}) /\ InitAnyTables

SpecTables == InitTables /\ [][Next]_vars

-----------------------------------------------------------------------------
(* Two invocations with --use-say in one working directory, at the same time *)

InitRace ==
    /\ InitProcs({1, 2})
    /\ \A p \in {1, 2} :
          /\ argv[p].use_say /\ ~argv[p].use_amazon /\ argv[p].use_google_key = None
          /\ argv[p].lang \in {"de", "en"}
    /\ fs = [x \in {} |-> Old]
    /\ startFs = fs
    /\ InitSrcTables

NextRace ==
    \/ \E p \in DOMAIN pc : ParseArgs(p)
    \/ \E p \in DOMAIN pc : CheckArgs(p)
    \/ \E p \in DOMAIN pc : OutputExists(p)
    \/ \E p \in DOMAIN pc : Say(p)
    \/ \E p \in DOMAIN pc : Ffmpeg(p)
    \/ \E p \in DOMAIN pc : Remove(p)

SpecRace == InitRace /\ [][NextRace]_vars

-----------------------------------------------------------------------------
(* What the properties below speak of *)

Procs == DOMAIN pc

\* the arguments of invocation p once parsed: --lang defaults to 'de'
Given(p) == [argv[p] EXCEPT !.lang = IF @ = "absent" THEN "de" ELSE @]

\* the places in the log where p tried to start an external command
CmdsOf(p) == {i \in DOMAIN log : log[i].pid = p /\ log[i].op \in Commands}

\* the places in the log where p did op
OpsOf(p, op) == {i \in DOMAIN log : log[i].pid = p /\ log[i].op = op}

\* the engine the options call for: Amazon before a non-empty Google key
\* before `say`
Precedence(a) ==
    IF a.use_amazon THEN "amazon"
    ELSE IF a.use_google_key \notin {None, ""} THEN "google"
    ELSE "say"

\* the external commands of an engine
ToolsOf(engine) ==
    CASE engine = "amazon" -> {"aws"}
      [] engine = "google" -> {"curl"}
      [] OTHER -> {"say", "ffmpeg"}

\* the languages an engine's own table has
LangsOf(engine) ==
    CASE engine = "amazon" -> DOMAIN amazonVoiceByLang
      [] engine = "google" -> DOMAIN googleVoiceByLang
      [] OTHER -> DOMAIN sayVoiceByLang

\* no engine option on the command line
NoEngine(a) == ~a.use_say /\ ~a.use_amazon /\ a.use_google_key = None

\* the output path is there when the program starts
OutputAtStart(p) == OutputOf(p) \in DOMAIN startFs

\* the program has not touched the output file of p
OutputUntouched(p) ==
    /\ OutputOf(p) \in DOMAIN fs <=> OutputOf(p) \in DOMAIN startFs
    /\ OutputOf(p) \in DOMAIN fs => fs[OutputOf(p)] = startFs[OutputOf(p)]

-----------------------------------------------------------------------------
(* C1 *)

\* C1, as stated: whenever the output path exists at the start, whatever the
\* options, no external command is ever started and the process exits with 1.
C1_AsStated ==
    \A p \in Procs :
        OutputAtStart(p) =>
            /\ CmdsOf(p) = {}
            /\ pc[p] = "done" => exitStatus[p] = 1

\* C1, amended: whenever the output path exists at the start, no external
\* command is ever started, and the process exits with 1 if an engine option
\* is given and --lang (when given) is a supported language, with 2 otherwise
\* (the arguments are checked before the output path is).
C1_Amended ==
    \A p \in Procs :
        OutputAtStart(p) =>
            /\ CmdsOf(p) = {}
            /\ pc[p] = "done" =>
                 exitStatus[p] =
                    IF /\ ~NoEngine(argv[p])
                       /\ argv[p].lang \in {"absent", "de", "en", "fr"}
                    THEN 1 ELSE 2

\* an invocation with --use-say over an existing output has ended with status 1
\* right after the existence test
C1_Witness ==
    \E p \in Procs :
        /\ OutputAtStart(p) /\ argv[p].use_say
        /\ pc[p] = "done" /\ exitStatus[p] = 1
        /\ \E i \in OpsOf(p, "exists") : log[i].result = "True"

-----------------------------------------------------------------------------
(* C2 *)

-----------------------------------------------------------------------------
(* C3 *)

\* C3, as stated: over any contents of the tables and any options, if the
\* language has no entry in the table of the engine textToSpeech dispatches
\* to, the process exits with status 2, no external command is started, and
\* textToSpeech never looks the language up (no KeyError).
C3_MissingLangExits2 ==
    \A p \in Procs :
        Given(p).lang \notin LangsOf(Precedence(Given(p))) =>
            /\ CmdsOf(p) = {}
            /\ exc[p] # "KeyError"
            /\ pc[p] = "done" => exitStatus[p] = 2

-----------------------------------------------------------------------------
(* C4 *)

\* C4, as stated: once an external command has failed (could not be started,
\* or exited with a non-zero status) or curl's output is not JSON, the
\* program does nothing more on the outside world and ends with a status
\* other than 0.
C4_FailurePropagates ==
    \A p \in Procs :
        /\ \A i \in CmdsOf(p) :
              log[i].result # "ok" =>
                 /\ \A j \in DOMAIN log : j > i => log[j].pid # p
                 /\ pc[p] \notin {"ffmpeg", "remove", "json_loads", "b64decode", "write"}
                 /\ pc[p] = "done" => exitStatus[p] # 0
        /\ response[p].kind = "garbage" =>
              /\ OpsOf(p, "open") = {}
              /\ pc[p] = "done" => exitStatus[p] # 0

-----------------------------------------------------------------------------
(* C5 *)

\* C5, as stated: with the `say` engine, once `say` has run, temp.aiff does
\* not exist when the program has ended, whatever ffmpeg did (success,
\* non-zero status, or not starting at all).
C5_TempGoneAtExit ==
    \A p \in Procs :
        (/\ pc[p] = "done"
         /\ \E i \in OpsOf(p, "say") : log[i].result # "nostart")
        => ~Exists(TempFile(p))

-----------------------------------------------------------------------------
(* C6 *)

\* exactly one engine option is on the command line
OneFlag(a) ==
    Cardinality({f \in {"say", "amazon", "google"} :
                    \/ f = "say" /\ a.use_say
                    \/ f = "amazon" /\ a.use_amazon
                    \/ f = "google" /\ a.use_google_key # None}) = 1

\* the engine that one option names
Flagged(a) ==
    IF a.use_say THEN "say" ELSE IF a.use_amazon THEN "amazon" ELSE "google"

\* C6, as stated: with exactly one engine option and a language that engine's
\* table has, the run past validation starts that engine's command, only
\* commands of that engine are started, and the voice passed is the one that
\* engine's own table maps the language to.
C6_OwnTableVoice ==
    \A p \in Procs :
        LET a == Given(p)
        IN (OneFlag(a) /\ a.lang \in LangsOf(Flagged(a))) =>
            /\ \A i \in CmdsOf(p) :
                  /\ log[i].op \in ToolsOf(Flagged(a))
                  /\ log[i].op = "say" => log[i].arg = sayVoiceByLang[a.lang]
                  /\ log[i].op = "aws" => log[i].arg = amazonVoiceByLang[a.lang]
                  /\ log[i].op = "curl" => log[i].arg = googleVoiceByLang[a.lang]
            /\ (pc[p] = "done" /\ \E i \in OpsOf(p, "exists") : log[i].result = "False")
                  => CmdsOf(p) # {}

-----------------------------------------------------------------------------
(* C7 *)

\* C7: with the Google engine, whenever curl's output is a JSON object whose
\* audioContent is the base64 encoding of a byte string P and the program
\* has written the target file, the file holds exactly P (and so does mp3Data
\* from the moment it is decoded).
C7_RoundTrip ==
    \A p \in Procs : \A P \in Payloads :
        (/\ response[p].kind = "audio object"
         /\ response[p].audioContent = B64Encode(P))
        => /\ pc[p] = "write" => mp3Data[p].data = P
           /\ (\E i \in OpsOf(p, "open") : log[i].result = "ok")
                 => fs[OutputOf(p)] = Bytes(P)

\* a payload whose encoding ends in padding, with bits carried between the
\* characters, has been written
C7_Witness ==
    \E p \in Procs :
        /\ response[p].kind = "audio object"
        /\ response[p].audioContent = B64Encode(<<165, 255>>)
        /\ \E i \in OpsOf(p, "open") : log[i].result = "ok"
        /\ pc[p] = "done" /\ exitStatus[p] = 0
        /\ fs[OutputOf(p)] = Bytes(<<165, 255>>)

-----------------------------------------------------------------------------
(* C8 *)

\* C8: only commands of the engine the precedence picks (Amazon, then a
\* non-empty Google key, then `say`) are ever started, also with two or three
\* engine options at once, and a run that got past validation did start one.
C8_OneAdapterByPrecedence ==
    \A p \in Procs :
        /\ \A i \in CmdsOf(p) : log[i].op \in ToolsOf(Precedence(Given(p)))
        /\ (pc[p] = "done" /\ \E i \in OpsOf(p, "exists") : log[i].result = "False")
              => CmdsOf(p) # {}

\* all three engine options at once: aws has been started
C8_Witness ==
    \E p \in Procs :
        /\ argv[p].use_say /\ argv[p].use_amazon /\ argv[p].use_google_key = "KEY"
        /\ pc[p] = "done"
        /\ \E i \in CmdsOf(p) : log[i].op = "aws"

-----------------------------------------------------------------------------
(* C9 *)

\* C9: with the Google engine the program opens the target file only after
\* curl has exited with 0, its output is parsed and audioContent is decoded;
\* when one of these steps fails the target file is never opened, created or
\* written.
C9_OpenAfterDecode ==
    \A p \in Procs :
        Precedence(Given(p)) = "google" =>
            /\ (OpsOf(p, "open") # {} \/ ~OutputUntouched(p)) =>
                  /\ \E i \in OpsOf(p, "curl") : log[i].result = "ok"
                  /\ responseJson[p].kind = "audio object"
                  /\ mp3Data[p].ok
            /\ exc[p] \in {"CalledProcessError", "FileNotFoundError",
                           "JSONDecodeError", "KeyError", "binascii.Error"} =>
                  /\ OpsOf(p, "open") = {}
                  /\ OutputUntouched(p)
                  /\ ~OutputAtStart(p)
                  /\ ~Exists(OutputOf(p))

\* curl succeeded, the output was JSON, and decoding audioContent failed:
\* the run has ended without a target file
C9_Witness ==
    \E p \in Procs :
        /\ Precedence(Given(p)) = "google"
        /\ pc[p] = "done" /\ exc[p] = "binascii.Error"
        /\ ~Exists(OutputOf(p))

-----------------------------------------------------------------------------
(* C10 *)

\* the step at place j of the log changed temp.aiff
ChangesTemp(j) ==
    \/ log[j].op = "say" /\ log[j].result \in {"ok", "partial"}
    \/ log[j].op = "remove" /\ log[j].result = "ok"

\* the last place before k where temp.aiff was changed (0: none)
LastChange(k) ==
    LET M == {j \in 1..(k - 1) : ChangesTemp(j)}
    IN IF M = {} THEN 0 ELSE CHOOSE j \in M : \A m \in M : m <= j

\* C10: two invocations with `say` collide on temp.aiff.  Whenever the other
\* invocation was the last to write temp.aiff before this one's ffmpeg ran,
\* this one's target is made from the other's audio; whenever the other one
\* was the last to remove it, this one's ffmpeg cannot transcode and this
\* one's os.remove fails.  (C10_Witness shows such an interleaving.)
C10_SharedTempCollides ==
    \A k \in DOMAIN log :
        LET p == log[k].pid
            j == LastChange(k)
        IN (j # 0 /\ log[j].pid # p) =>
            /\ (log[k].op = "ffmpeg" /\ log[j].op = "say"
                  /\ log[k].result \in {"ok", "partial"})
                 => fs[OutputOf(p)].text = TextOf(log[j].pid)
            /\ (log[k].op = "ffmpeg" /\ log[j].op = "remove")
                 => log[k].result \in {"nonzero", "nostart"}
            /\ (log[k].op = "remove" /\ log[j].op = "remove")
                 => log[k].result = "FileNotFoundError"

\* invocation 1 has turned the text of invocation 2 into its target, and then
\* found temp.aiff already removed by invocation 2
C10_Witness ==
    /\ Procs = {1, 2}
    /\ pc[1] = "done" /\ exc[1] = "FileNotFoundError"
    /\ \E i \in OpsOf(1, "remove") : log[i].result = "FileNotFoundError"
    /\ \E i \in OpsOf(2, "remove") : log[i].result = "ok"
    /\ Exists(OutputOf(1))
    /\ fs[OutputOf(1)].text = TextOf(2)
    /\ TextOf(1) # TextOf(2) /\ OutputOf(1) # OutputOf(2)

====
